---- MODULE Spec2Model ----
(***************************************************************************)
(* Model of go-public-dns (package publicdns): the bulk load of a record   *)
(* sequence into the 'nameservers' table (DumpToDatabase) and the          *)
(* country-scoped queries of PublicDNS, against an SQLite store reached    *)
(* through database/sql, as the package's tests use it.                    *)
(*                                                                         *)
(* The store is modelled by what the SQL statements of the source do in    *)
(* SQLite: column affinity on insert, the cross-type sort order of ORDER   *)
(* BY, the PRIMARY KEY conflict, DROP TABLE removing the table's indexes,  *)
(* and the unspecified row a bare column of a GROUP BY query is read from. *)
(***************************************************************************)
EXTENDS Integers, Sequences, FiniteSets, TLC

\* Longest record sequence handed to DumpToDatabase.
MaxLen == 2
\* Number of distinct check times of the upstream dataset.
MaxTime == 2
\* Longest country-code list handed to GetBestFromCountries.
MaxCodes == 2
\* Most data lines of a CSV document.
MaxRows == 2

IPs == {"8.8.8.8", "194.150.168.168"}
Countries == {"DE", "US"}
Names == {"", "google-public-dns-a.google.com"}
Cities == {"", "Mountain View"}
Reliabilities == {"", "0.50", "1.00"}
Times == 1..MaxTime

\* Order in which the store's binary collation sorts the country codes.
CountryOrder == <<"DE", "US">>

\* The three indexes of DumpToDatabase, in the order their statements run.
IndexNames ==
  <<"nameservers_country_index",
    "nameservers_country_reliability_index",
    "nameservers_reliability_index">>

\* The statements of DumpToDatabase that the store can fail, besides the
\* failure of every statement on a closed connection.
Faults ==
  {"none", "drop", "create", "index 1", "index 2", "index 3",
   "begin", "prepare", "exec", "commit"}

\* The three CREATE INDEX statements as statements the store can fail: the
\* one db.Exec runs them one after the other, each committed by itself.
IndexStages == <<"index 1", "index 2", "index 3">>

\* Number of conditions of the "good" filter (name, city, reliability) a
\* record violates.
Defects(r) ==
  (IF r.Name = "" THEN 1 ELSE 0) + (IF r.City = "" THEN 1 ELSE 0)
    + (IF r.Reliability # "1.00" THEN 1 ELSE 0)

\* What the upstream dataset can say about one address: the queried fields
\* of a Nameserver besides the address.  The filters of the queries are
\* conjunctions and checked_at is read only for rows that pass them, so the
\* records violating several conditions, and the check times of records
\* violating one, are not varied.
Attributes ==
  {r \in [Country : Countries, Name : Names, City : Cities,
          Reliability : Reliabilities, CheckedAt : Times] :
     Defects(r) <= 1 /\ (Defects(r) = 1 => r.CheckedAt = 1)}

VARIABLES
  feed,         \* the upstream dataset: the attributes published for each address
  dbOpen,       \* the *sql.DB handle has not been closed
  nameservers,  \* the table: [exists, indexes, rows], rows in rowid order
  call,         \* the last operation called and its arguments
  ret,          \* what that operation returned
  files,        \* the file system: for each filename, the document it holds
  load,         \* the last loader called, its arguments and what it returned
  ingest,       \* a DumpToDatabase in progress: its position and its locals
  reader        \* what the queries of a second connection ran against

vars == <<feed, dbOpen, nameservers, call, ret, files, load, ingest, reader>>

\* The state of the database and its caller, the state of the loaders, and
\* the state of a DumpToDatabase that runs next to a reader.
database == <<feed, dbOpen, nameservers, call, ret>>
loader == <<files, load>>
stepwise == <<ingest, reader>>

\* One record of the dataset.  Version, Error, DNSSec and CreatedAt are
\* inserted as they are and read by no query; they are left out.
Nameserver(ip, a) ==
  [IPAddress |-> ip, Name |-> a.Name, Country |-> a.Country, City |-> a.City,
   Reliability |-> a.Reliability, CheckedAt |-> a.CheckedAt]

RECURSIVE SeqsUpTo(_, _)
SeqsUpTo(S, n) ==
  IF n = 0 THEN {<<>>}
  ELSE LET shorter == SeqsUpTo(S, n - 1)
       IN shorter \cup {Append(s, x) : s \in {t \in shorter : Len(t) = n - 1}, x \in S}

Range(s) == {s[i] : i \in 1..Len(s)}

(***************************************************************************)
(* The store: what SQLite does with the statements of the source.          *)
(***************************************************************************)

\* The value SQLite stores when the text of Nameserver.Reliability is bound
\* to the column 'reliability' FLOAT: the column has REAL affinity, so a
\* text that is a well-formed number is converted to that number (num, in
\* hundredths) and any other text, the empty one included, stays text.
RealAffinity(s) ==
  CASE s = "1.00" -> [type |-> "real", num |-> 100, text |-> ""]
    [] s = "0.50" -> [type |-> "real", num |-> 50, text |-> ""]
    [] OTHER -> [type |-> "text", num |-> 0, text |-> s]

\* The row one execution of the INSERT statement adds for a record.  The
\* driver binds CheckedAt as a timestamp text whose order, for the times of
\* one dataset, is the order of the times.
InsertedRow(client) ==
  [ip |-> client.IPAddress, name |-> client.Name, country |-> client.Country,
   city |-> client.City, reliability |-> RealAffinity(client.Reliability),
   checked_at |-> client.CheckedAt]

\* The sort order of ORDER BY over stored values: every number sorts before
\* every text, numbers by value.  (The only text of Reliabilities is "".)
ReliabilityLess(a, b) ==
  \/ a.type = "real" /\ b.type = "text"
  \/ a.type = "real" /\ b.type = "real" /\ a.num < b.num

\* The comparison reliability = 1 of the WHERE clauses.
ReliabilityIsOne(v) == v.type = "real" /\ v.num = 100

NoTable == [exists |-> FALSE, indexes |-> {}, rows |-> <<>>]

\* A statement fails when the handle is closed or the store fails it.
Fails(open, stage, fault) == ~open \/ fault = stage

\* The error of db.Exec(`DROP TABLE 'nameservers'`): the table does not
\* exist, or the store fails the statement; "" when the table is dropped.
DropError(t, failed) ==
  IF failed THEN "drop table"
  ELSE IF ~t.exists THEN "no such table: nameservers"
  ELSE ""

\* DropTable with a DROP that never takes effect.
DropTableKept(t, failed) == t

\* DropTable as DELETE FROM 'nameservers': the rows go, the table and its
\* indexes stay.
DropTableAsDelete(t, failed) ==
  IF failed \/ ~t.exists THEN t ELSE [t EXCEPT !.rows = <<>>]

\* db.Exec(`DROP TABLE 'nameservers'`); the error is discarded.  Dropping
\* the table drops its indexes and rows.
DropTable(t, failed) == IF failed \/ ~t.exists THEN t ELSE NoTable

\* CREATE TABLE IF NOT EXISTS 'nameservers' (...): an existing table is
\* left as it is.
CreateTable(t) == IF t.exists THEN t ELSE [NoTable EXCEPT !.exists = TRUE]

\* One CREATE INDEX statement: it fails when the store fails it and when
\* the index exists, and the index is in the table when it returns.
CreateIndex(t, name, failed) ==
  IF failed THEN [table |-> t, err |-> "create indexes"]
  ELSE IF name \in t.indexes THEN [table |-> t, err |-> "index already exists"]
  ELSE [table |-> [t EXCEPT !.indexes = @ \cup {name}], err |-> ""]

\* CreateIndexes with CREATE INDEX IF NOT EXISTS: an existing index is no
\* error.
RECURSIVE CreateIndexesIfNotExists(_, _, _)
CreateIndexesIfNotExists(t, names, failed) ==
  IF names = <<>> THEN [table |-> t, err |-> ""]
  ELSE IF Head(failed) THEN [table |-> t, err |-> "create indexes"]
  ELSE CreateIndexesIfNotExists([t EXCEPT !.indexes = @ \cup {Head(names)}],
                                Tail(names), Tail(failed))

\* The CREATE INDEX statements of the one db.Exec, run one after the other;
\* failed says for each whether the store fails it.  The first that fails
\* ends the Exec, and the indexes created before it stay.
RECURSIVE CreateIndexes(_, _, _)
CreateIndexes(t, names, failed) ==
  IF names = <<>> THEN [table |-> t, err |-> ""]
  ELSE LET one == CreateIndex(t, Head(names), Head(failed))
       IN IF one.err # "" THEN one
          ELSE CreateIndexes(one.table, Tail(names), Tail(failed))

\* The insert loop inside the transaction.  stmt.Exec fails when the store
\* fails it or the address collides with a row of the table (PRIMARY KEY);
\* its error is discarded and r.RowsAffected() is then called on a nil
\* Result, which panics.
RECURSIVE InsertLoop(_, _, _, _)
InsertLoop(rs, servers, total, execFails) ==
  IF servers = <<>> THEN [rows |-> rs, total |-> total, panic |-> FALSE]
  ELSE LET client == Head(servers)
       IN IF execFails \/ \E i \in 1..Len(rs) : rs[i].ip = client.IPAddress
            THEN [rows |-> rs, total |-> total, panic |-> TRUE]
            ELSE InsertLoop(Append(rs, InsertedRow(client)), Tail(servers),
                            total + 1, execFails)

\* CommitFailureTotal returning the running total, as the other error
\* returns of DumpToDatabase do.
CommitFailureKeepsTotal(total) == total

\* return 0, txErr after a failed Commit.
CommitFailureTotal(total) == 0

\* A rollback that leaves the rows of the transaction in the table.
RollbackKeepsRows(t, rows) == [t EXCEPT !.rows = rows]

\* tx.Rollback(): the table without the rows the transaction inserted.
RolledBack(t, rows) == t

\* A commit that leaves the table without the rows of the transaction.
CommitLosesRows(t, rows) == t

\* tx.Commit(): the rows the transaction inserted are in the table.
Committed(t, rows) == [t EXCEPT !.rows = rows]

Outcome(t, total, err, panic) ==
  [table |-> t, total |-> total, err |-> err, panic |-> panic]

\* DumpToDatabase(db, servers), on a handle that is open or not and the
\* table t, with the store failing the statement named by fault.  A
\* transaction that is not committed leaves no row in the table.
DumpResult(open, t, servers, fault) ==
  LET dropped == DropTable(t, Fails(open, "drop", fault))
  IN IF Fails(open, "create", fault) THEN Outcome(dropped, 0, "create table", FALSE)
     ELSE
  LET created == CreateTable(dropped)
      indexed == CreateIndexes(created, IndexNames,
                               [k \in 1..Len(IndexStages) |->
                                  Fails(open, IndexStages[k], fault)])
  IN IF indexed.err # "" THEN Outcome(indexed.table, 0, indexed.err, FALSE)
     ELSE IF Fails(open, "begin", fault) THEN Outcome(indexed.table, 0, "begin", FALSE)
     ELSE IF Fails(open, "prepare", fault) THEN Outcome(indexed.table, 0, "prepare", FALSE)
     ELSE
  LET ins == InsertLoop(indexed.table.rows, servers, 0, Fails(open, "exec", fault))
  IN IF ins.panic THEN Outcome(indexed.table, 0, "", TRUE)
     ELSE IF Fails(open, "commit", fault)
       THEN Outcome(RolledBack(indexed.table, ins.rows),
                    CommitFailureTotal(ins.total), "commit", FALSE)
       ELSE Outcome(Committed(indexed.table, ins.rows), ins.total, "", FALSE)

(***************************************************************************)
(* The queries of PublicDNS.                                               *)
(***************************************************************************)

\* What the queries scan into a Nameserver: SELECT ip, country, city.
Scanned(row) == [IPAddress |-> row.ip, Country |-> row.country, City |-> row.city]

Answer(recs, tally, err, panic) ==
  [total |-> 0, recs |-> recs, tally |-> tally, err |-> err, panic |-> panic]

\* The error of a query the store cannot run: the handle is closed, or the
\* table does not exist.  "" when it can.
QueryError(open, t) ==
  IF ~open THEN "sql: database is closed"
  ELSE IF ~t.exists THEN "no such table: nameservers"
  ELSE ""

RowsOf(t, country) == SelectSeq(t.rows, LAMBDA row : row.country = country)

RECURSIVE MapScanned(_)
MapScanned(rs) ==
  IF rs = <<>> THEN <<>> ELSE <<Scanned(Head(rs))>> \o MapScanned(Tail(rs))

\* AllFromCountry without its WHERE clause.
AllFromCountryUnfiltered(open, t, country) ==
  IF QueryError(open, t) # "" THEN Answer(<<>>, <<>>, QueryError(open, t), FALSE)
  ELSE Answer(MapScanned(t.rows), <<>>, "", FALSE)

\* GetAllFromCountry: SELECT ip, country, city ... WHERE n.country = ?.
\* The statement gives no order; the rows are taken in rowid order.
AllFromCountry(open, t, country) ==
  IF QueryError(open, t) # "" THEN Answer(<<>>, <<>>, QueryError(open, t), FALSE)
  ELSE Answer(MapScanned(RowsOf(t, country)), <<>>, "", FALSE)

\* The rows ORDER BY reliability DESC can put first: those of the country
\* that no other row of the country sorts above.
FirstByReliabilityDesc(t, country) ==
  LET rs == Range(RowsOf(t, country))
  IN {r \in rs : \A q \in rs : ~ReliabilityLess(r.reliability, q.reliability)}

\* GetBestFromCountry: ... WHERE country = ? ORDER BY reliability DESC
\* LIMIT 1, scanned by QueryRow; the answers the store can give.
BestFromCountry(open, t, country) ==
  IF QueryError(open, t) # "" THEN {Answer(<<>>, <<>>, QueryError(open, t), FALSE)}
  ELSE IF RowsOf(t, country) = <<>>
    THEN {Answer(<<>>, <<>>, "sql: no rows in result set", FALSE)}
    ELSE {Answer(<<Scanned(r)>>, <<>>, "", FALSE) : r \in FirstByReliabilityDesc(t, country)}

\* Good without the condition on city.
GoodWithoutCity(row) == row.name # "" /\ ReliabilityIsOne(row.reliability)

\* WHERE ... name != '' and city != '' AND reliability = 1.
Good(row) == row.name # "" /\ row.city # "" /\ ReliabilityIsOne(row.reliability)

\* The rows the subquery of GetBestFromCountries selects for one country.
GoodRowsOf(t, country) == {r \in Range(RowsOf(t, country)) : Good(r)}

\* The rows SELECT * FROM (subquery ORDER BY reliability ASC, checked_at
\* ASC) GROUP BY nn.country can return for one country.  ip and city are
\* bare columns of an aggregate query: SQLite reads them from a row of the
\* group that it does not specify (the last row of the group in the
\* releases of the time of the source, the first in later ones), so no
\* order of the subquery decides which row it is.
GroupRepresentatives(t, country) == GoodRowsOf(t, country)

\* The result rows in the order of the grouping column.
RECURSIVE InCountryOrder(_, _)
InCountryOrder(f, order) ==
  IF order = <<>> THEN <<>>
  ELSE (IF Head(order) \in DOMAIN f THEN <<f[Head(order)]>> ELSE <<>>)
         \o InCountryOrder(f, Tail(order))

\* BestFromCountries without the outer GROUP BY: every selected row is
\* returned.
BestFromCountriesUngrouped(open, t, countries) ==
  IF Len(countries) = 0 THEN {Answer(<<>>, <<>>, "", TRUE)}
  ELSE IF QueryError(open, t) # "" THEN {Answer(<<>>, <<>>, QueryError(open, t), FALSE)}
  ELSE {Answer(MapScanned(SelectSeq(t.rows,
                 LAMBDA row : row.country \in Range(countries) /\ Good(row))),
               <<>>, "", FALSE)}

\* GetBestFromCountries; the answers the store can give.  With no country,
\* strings.Repeat(", ?", -1) panics before any statement is prepared.
BestFromCountries(open, t, countries) ==
  IF Len(countries) = 0 THEN {Answer(<<>>, <<>>, "", TRUE)}
  ELSE IF QueryError(open, t) # "" THEN {Answer(<<>>, <<>>, QueryError(open, t), FALSE)}
  ELSE LET groups == {c \in Range(countries) : GroupRepresentatives(t, c) # {}}
           picks == {f \in [groups -> Range(t.rows)] :
                       \A c \in groups : f[c] \in GroupRepresentatives(t, c)}
       IN {Answer(InCountryOrder([c \in groups |-> Scanned(f[c])], CountryOrder),
                  <<>>, "", FALSE) : f \in picks}

\* NameserverCountryTally counting every row of the country.
NameserverCountryTallyOfAll(t, country) ==
  [Country |-> country, Total |-> Len(RowsOf(t, country))]

\* SELECT n.country, COUNT(n.ip) ... WHERE (good) GROUP BY n.country.
NameserverCountryTally(t, country) ==
  [Country |-> country, Total |-> Cardinality(GoodRowsOf(t, country))]

\* GetNameserverPerCountryTally: one group for each country some row that
\* passes the filter has.
NameserverPerCountryTally(open, t) ==
  IF QueryError(open, t) # "" THEN Answer(<<>>, <<>>, QueryError(open, t), FALSE)
  ELSE LET groups == {c \in Countries : GoodRowsOf(t, c) # {}}
       IN Answer(<<>>,
                 InCountryOrder([c \in groups |-> NameserverCountryTally(t, c)],
                                CountryOrder),
                 "", FALSE)

(***************************************************************************)
(* The loaders.  A CSV document is the sequence of its lines, a line the   *)
(* sequence of its fields; of the columns of the dataset the model keeps   *)
(* the address and the check time.  The document of no line is the file of *)
(* no byte.                                                                *)
(***************************************************************************)

Header == <<"ip", "checked_at">>

\* The check time the dataset writes for the time 1, and a text that is no
\* time.
Stamp == "2016-03-13T01:40:41Z"
NoStamp == "yesterday"

\* The data lines: a well-formed one for each address, one whose check time
\* is no time, and one with a field missing.
Lines ==
  {<<ip, Stamp>> : ip \in IPs} \cup {<<"8.8.8.8", NoStamp>>, <<"8.8.8.8">>}

Documents == {<<>>} \cup {<<Header>> \o rows : rows \in SeqsUpTo(Lines, MaxRows)}

\* The files of the tests: the dataset of the repository, the file
\* LoadFromURL downloads to, and a name no file has.
TestFile == "nameservers.test.csv"
TempFile == "nameservers.temp1.csv"
Filenames == {TestFile, TempFile, "nameservers.test.csv.does.not.exist"}

\* The URLs of TestLoadFromURL: one that serves a document, and one of a
\* domain that does not exist.
GoodURL == "https://raw.githubusercontent.com/rvelhote/go-public-dns/master/nameservers.test.csv"
BadURL == "http://does-not-exist-public-dns.info/nameservers.csv"
URLs == {GoodURL, BadURL}

\* The calls of the loaders that the environment can fail.
LoadFaults == {"none", "open", "create", "get", "copy", "sync"}

File(doc) == [exists |-> TRUE, doc |-> doc]
NoFile == [exists |-> FALSE, doc |-> <<>>]

\* The number of bytes of a document, counted in lines.
Size(doc) == Len(doc)

\* The CheckedAt of a line: time.Time decodes an RFC 3339 text and fails on
\* any other.
ParseTime(text) ==
  IF text = Stamp THEN [ok |-> TRUE, time |-> 1] ELSE [ok |-> FALSE, time |-> 0]

\* The decoding of the data lines into records, one after the other, up to
\* the first line that fails; the records decoded before it stay in the
\* slice the caller handed in.
RECURSIVE DecodeRows(_, _)
DecodeRows(rows, decoded) ==
  IF rows = <<>> THEN [recs |-> decoded, err |-> ""]
  ELSE LET checked == ParseTime(Head(rows)[2])
       IN IF ~checked.ok THEN [recs |-> decoded, err |-> "parsing time"]
          ELSE DecodeRows(Tail(rows),
                          Append(decoded, [IPAddress |-> Head(rows)[1],
                                           CheckedAt |-> checked.time]))

\* gocsv.UnmarshalFile(file, &servers): the CSV reader reads every line
\* first and fails on a line that has not the fields of the header; then
\* the data lines are decoded.  A file of no byte has no header and is an
\* error.
UnmarshalFile(doc) ==
  IF doc = <<>> THEN [recs |-> <<>>, err |-> "empty csv file given"]
  ELSE IF \E i \in 2..Len(doc) : Len(doc[i]) # Len(doc[1])
    THEN [recs |-> <<>>, err |-> "wrong number of fields"]
    ELSE DecodeRows(Tail(doc), <<>>)

Loaded(recs, err) == [recs |-> recs, err |-> err]

\* LoadFromFile returning, with the error, the records decoded before it.
LoadFromFileKeepsDecoded(fs, filename, fault) ==
  IF fault = "open" \/ ~fs[filename].exists THEN Loaded(<<>>, "open")
  ELSE UnmarshalFile(fs[filename].doc)

\* LoadFromFile(filename) on the file system fs; os.Open fails when the
\* file does not exist or the environment fails it.
LoadFromFileResult(fs, filename, fault) ==
  IF fault = "open" \/ ~fs[filename].exists THEN Loaded(<<>>, "open")
  ELSE LET decoded == UnmarshalFile(fs[filename].doc)
       IN IF decoded.err # "" THEN Loaded(<<>>, decoded.err)
          ELSE Loaded(decoded.recs, "")

\* A check of the bytes written that nothing fails.
AnyBytesWritten(written) == FALSE

\* if written == 0.
ZeroBytesWritten(written) == written = 0

Fetched(fs, recs, err, written, steps) ==
  [files |-> fs, recs |-> recs, err |-> err, written |-> written, steps |-> steps]

\* LoadFromURL(url, filename) on the file system fs, when the URL serves
\* the document body; steps are the calls it makes, in their order.  A copy
\* that fails has written the first cut lines of the body.
LoadFromURLResult(fs, url, filename, body, fault, cut) ==
  IF fault = "create" THEN Fetched(fs, <<>>, "create", 0, <<"os.Create">>)
  ELSE IF fault = "get" \/ url = BadURL
    THEN Fetched([fs EXCEPT ![filename] = File(<<>>)], <<>>, "get", 0,
                 <<"os.Create", "http.Get">>)
  ELSE IF fault = "copy"
    THEN Fetched([fs EXCEPT ![filename] = File(SubSeq(body, 1, cut))], <<>>, "copy",
                 cut, <<"os.Create", "http.Get", "io.Copy">>)
  ELSE
  LET copied == [fs EXCEPT ![filename] = File(body)]
  IN IF ZeroBytesWritten(Size(body))
       THEN Fetched(copied, <<>>, "No bytes written", Size(body),
                    <<"os.Create", "http.Get", "io.Copy">>)
     ELSE IF fault = "sync"
       THEN Fetched(copied, <<>>, "sync", Size(body),
                    <<"os.Create", "http.Get", "io.Copy", "Sync">>)
       ELSE LET decoded == LoadFromFileResult(copied, filename, fault)
            IN Fetched(copied, decoded.recs, decoded.err, Size(body),
                       <<"os.Create", "http.Get", "io.Copy", "Sync", "Close",
                         "LoadFromFile">>)

Load(op, url, filename, fault, out) ==
  [op |-> op, url |-> url, filename |-> filename, fault |-> fault,
   recs |-> out.recs, err |-> out.err, written |-> out.written, steps |-> out.steps]

NoLoad == Load("none", "", "", "none", Fetched(<<>>, <<>>, "", 0, <<>>))

\* No loader has run: the dataset of the repository is on the disk.
LoaderInit ==
  /\ files = [f \in Filenames |->
                IF f = TestFile
                  THEN File(<<Header, <<"8.8.8.8", Stamp>>, <<"194.150.168.168", Stamp>>>>)
                  ELSE NoFile]
  /\ load = NoLoad

(***************************************************************************)
(* DumpToDatabase one statement at a time.  Each statement is one          *)
(* operation of the store, and between two of them the queries of another  *)
(* connection can run.                                                     *)
(***************************************************************************)

\* The locals of a DumpToDatabase: the statement it is at, its records and
\* the statement the store fails, the table it found, the rows as its
\* transaction sees them, the records inserted, the running total, the
\* state of the transaction and the error it returns.
Ingest(pc, servers, fault, before, rows, done, total, tx, err) ==
  [pc |-> pc, servers |-> servers, fault |-> fault, before |-> before,
   rows |-> rows, done |-> done, total |-> total, tx |-> tx, err |-> err]

NoIngest == Ingest("idle", <<>>, "none", NoTable, <<>>, 0, 0, "none", "")

\* When a query runs, as the call it runs next to sees it.
Phase(pc) ==
  CASE pc = "idle" -> "idle"
    [] pc = "returned" -> "after"
    [] pc = "panicked" -> "after panic"
    [] OTHER -> "during"

\* Another connection seeing the rows of a transaction before its commit.
VisibleUncommitted(t, rows, tx) == IF tx = "open" THEN [t EXCEPT !.rows = rows] ELSE t

\* The table as another connection sees it: the rows a transaction has
\* inserted are not in it before the commit.
Visible(t, rows, tx) == t

StepwiseInit ==
  /\ ingest = NoIngest
  /\ reader = {}

(***************************************************************************)
(* The state machine: a caller using one handle on one database, one call  *)
(* at a time.                                                              *)
(***************************************************************************)

Call(op, servers, fault, country, countries, found) ==
  [op |-> op, servers |-> servers, fault |-> fault, country |-> country,
   countries |-> countries, found |-> found]

Query(op, country, countries) == Call(op, <<>>, "none", country, countries, {})

\* No call has returned a result the caller has not yet taken.
NoCall == Query("none", "", <<>>)
NoAnswer == Answer(<<>>, <<>>, "", FALSE)

Init ==
  /\ feed \in [IPs -> Attributes]
  /\ dbOpen = TRUE
  /\ nameservers = NoTable
  /\ call = NoCall
  /\ ret = NoAnswer
  /\ LoaderInit
  /\ StepwiseInit

\* DumpToDatabase(db, servers) for the records of the addresses ips.  The
\* store fails single statements of an open handle only: on a closed one
\* every statement fails.  A call that panics ends the process; its
\* transaction is never committed, and what follows is a later run on the
\* same database.  call.found keeps the addresses of the rows the call
\* found in the table.
DumpToDatabase(ips, fault) ==
  LET servers == [i \in 1..Len(ips) |-> Nameserver(ips[i], feed[ips[i]])]
      out == DumpResult(dbOpen, nameservers, servers, fault)
  IN /\ call = NoCall
     /\ dbOpen \/ fault = "none"
     /\ nameservers' = out.table
     /\ call' = Call("DumpToDatabase", servers, fault, "", <<>>,
                     {nameservers.rows[i].ip : i \in 1..Len(nameservers.rows)})
     /\ ret' = [Answer(<<>>, <<>>, out.err, out.panic) EXCEPT !.total = out.total]
     /\ UNCHANGED <<feed, dbOpen, loader, stepwise>>

GetAllFromCountry(country) ==
  /\ call = NoCall
  /\ call' = Query("GetAllFromCountry", country, <<>>)
  /\ ret' = AllFromCountry(dbOpen, nameservers, country)
  /\ UNCHANGED <<feed, dbOpen, nameservers, loader, stepwise>>

GetBestFromCountry(country) ==
  /\ call = NoCall
  /\ call' = Query("GetBestFromCountry", country, <<>>)
  /\ ret' \in BestFromCountry(dbOpen, nameservers, country)
  /\ UNCHANGED <<feed, dbOpen, nameservers, loader, stepwise>>

GetBestFromCountries(countries) ==
  /\ call = NoCall
  /\ call' = Query("GetBestFromCountries", "", countries)
  /\ ret' \in BestFromCountries(dbOpen, nameservers, countries)
  /\ UNCHANGED <<feed, dbOpen, nameservers, loader, stepwise>>

GetNameserverPerCountryTally ==
  /\ call = NoCall
  /\ call' = Query("GetNameserverPerCountryTally", "", <<>>)
  /\ ret' = NameserverPerCountryTally(dbOpen, nameservers)
  /\ UNCHANGED <<feed, dbOpen, nameservers, loader, stepwise>>

\* The caller takes the result of the call and goes on.
Return ==
  /\ call # NoCall
  /\ call' = NoCall
  /\ ret' = NoAnswer
  /\ UNCHANGED <<feed, dbOpen, nameservers, loader, stepwise>>

\* db.Close(), as TestFailedDumpToDatabase does before it dumps.
Close ==
  /\ call = NoCall
  /\ dbOpen
  /\ dbOpen' = FALSE
  /\ UNCHANGED <<feed, nameservers, call, ret, loader, stepwise>>

\* sql.Open on the same database file, as loadAndConnect does.
Open ==
  /\ call = NoCall
  /\ ~dbOpen
  /\ dbOpen' = TRUE
  /\ UNCHANGED <<feed, nameservers, call, ret, loader, stepwise>>

Next ==
  \/ \E ips \in SeqsUpTo(IPs, MaxLen), fault \in Faults : DumpToDatabase(ips, fault)
  \/ \E country \in Countries : GetAllFromCountry(country)
  \/ \E country \in Countries : GetBestFromCountry(country)
  \/ \E countries \in SeqsUpTo(Countries, MaxCodes) : GetBestFromCountries(countries)
  \/ GetNameserverPerCountryTally
  \/ Return
  \/ Close
  \/ Open

Spec == Init /\ [][Next]_vars

(***************************************************************************)
(* The loaders as a state machine of their own: the calls of LoadFromFile  *)
(* and LoadFromURL on the file system, the database left alone.            *)
(***************************************************************************)

\* The dataset of the repository on the disk, and a database that no
\* loader call reads.
LoaderSpecInit ==
  /\ feed = [ip \in IPs |-> CHOOSE a \in Attributes : Defects(a) = 0]
  /\ dbOpen = TRUE
  /\ nameservers = NoTable
  /\ call = NoCall
  /\ ret = NoAnswer
  /\ LoaderInit
  /\ StepwiseInit

LoadFromFile(filename, fault) ==
  LET out == LoadFromFileResult(files, filename, fault)
  IN /\ load' = Load("LoadFromFile", "", filename, fault,
                     Fetched(files, out.recs, out.err, 0, <<>>))
     /\ UNCHANGED <<files, database, stepwise>>

LoadFromURL(url, filename, body, fault, cut) ==
  LET out == LoadFromURLResult(files, url, filename, body, fault, cut)
  IN /\ fault # "copy" => cut = 0
     /\ cut <= Size(body)
     /\ files' = out.files
     /\ load' = Load("LoadFromURL", url, filename, fault, out)
     /\ UNCHANGED <<database, stepwise>>

LoaderNext ==
  \/ \E filename \in Filenames, fault \in {"none", "open"} : LoadFromFile(filename, fault)
  \/ \E url \in URLs, body \in Documents, fault \in LoadFaults, cut \in 0..(MaxRows + 1) :
       LoadFromURL(url, TempFile, body, fault, cut)

LoaderSpec == LoaderSpecInit /\ [][LoaderNext]_vars

(***************************************************************************)
(* DumpToDatabase next to a reader: the statements of the call, in their   *)
(* order, on an open handle, and the queries of a second connection        *)
(* between them.                                                           *)
(***************************************************************************)

IngestSpecInit ==
  /\ feed = [ip \in IPs |-> CHOOSE a \in Attributes : Defects(a) = 0]
  /\ dbOpen = TRUE
  /\ nameservers = NoTable
  /\ call = NoCall
  /\ ret = NoAnswer
  /\ LoaderInit
  /\ StepwiseInit

\* DumpToDatabase(db, servers) is called; an earlier call has returned, or
\* has panicked and the program has been started again.
CallDumpToDatabase(ips, fault) ==
  /\ ingest.pc \in {"idle", "returned", "panicked"}
  /\ ingest' = Ingest("drop", [i \in 1..Len(ips) |-> Nameserver(ips[i], feed[ips[i]])],
                      fault, nameservers, <<>>, 0, 0, "none", "")
  /\ reader' = {}
  /\ UNCHANGED <<database, loader>>

ExecDropTable ==
  /\ ingest.pc = "drop"
  /\ nameservers' = DropTable(nameservers, Fails(dbOpen, "drop", ingest.fault))
  /\ ingest' = [ingest EXCEPT !.pc = "create"]
  /\ UNCHANGED <<feed, dbOpen, call, ret, loader, reader>>

ExecCreateTable ==
  /\ ingest.pc = "create"
  /\ IF Fails(dbOpen, "create", ingest.fault)
       THEN /\ ingest' = [ingest EXCEPT !.pc = "returned", !.err = "create table"]
            /\ UNCHANGED nameservers
       ELSE /\ ingest' = [ingest EXCEPT !.pc = IndexStages[1]]
            /\ nameservers' = CreateTable(nameservers)
  /\ UNCHANGED <<feed, dbOpen, call, ret, loader, reader>>

\* One CREATE INDEX statement of the db.Exec that runs the three; the Exec
\* returns at the first that fails and after the last.
ExecCreateIndex ==
  /\ ingest.pc \in Range(IndexStages)
  /\ LET k == CHOOSE i \in 1..Len(IndexStages) : IndexStages[i] = ingest.pc
         one == CreateIndex(nameservers, IndexNames[k],
                            Fails(dbOpen, IndexStages[k], ingest.fault))
     IN /\ nameservers' = one.table
        /\ ingest' = IF one.err # ""
                       THEN [ingest EXCEPT !.pc = "returned", !.err = one.err]
                       ELSE IF k = Len(IndexStages)
                         THEN [ingest EXCEPT !.pc = "begin"]
                         ELSE [ingest EXCEPT !.pc = IndexStages[k + 1]]
  /\ UNCHANGED <<feed, dbOpen, call, ret, loader, reader>>

\* tx, err := db.Begin().
Begin ==
  /\ ingest.pc = "begin"
  /\ ingest' = IF Fails(dbOpen, "begin", ingest.fault)
                 THEN [ingest EXCEPT !.pc = "returned", !.err = "begin"]
                 ELSE [ingest EXCEPT !.pc = "prepare", !.tx = "open",
                                     !.rows = nameservers.rows]
  /\ UNCHANGED <<database, loader, reader>>

\* stmt, err := tx.Prepare(...); when it fails the call returns and the
\* transaction is left as it is.
Prepare ==
  /\ ingest.pc = "prepare"
  /\ ingest' = IF Fails(dbOpen, "prepare", ingest.fault)
                 THEN [ingest EXCEPT !.pc = "returned", !.err = "prepare"]
                 ELSE [ingest EXCEPT !.pc = "insert"]
  /\ UNCHANGED <<database, loader, reader>>

\* One pass of the insert loop.
ExecInsert ==
  /\ ingest.pc = "insert"
  /\ ingest.done < Len(ingest.servers)
  /\ LET ins == InsertLoop(ingest.rows, <<ingest.servers[ingest.done + 1]>>,
                           ingest.total, Fails(dbOpen, "exec", ingest.fault))
     IN ingest' = IF ins.panic
                    THEN [ingest EXCEPT !.pc = "panicked"]
                    ELSE [ingest EXCEPT !.rows = ins.rows, !.total = ins.total,
                                        !.done = @ + 1]
  /\ UNCHANGED <<database, loader, reader>>

\* txErr := tx.Commit() after the loop, and what follows it.
Commit ==
  /\ ingest.pc = "insert"
  /\ ingest.done = Len(ingest.servers)
  /\ IF Fails(dbOpen, "commit", ingest.fault)
       THEN /\ nameservers' = RolledBack(nameservers, ingest.rows)
            /\ ingest' = [ingest EXCEPT !.pc = "returned", !.tx = "rolled back",
                                        !.total = CommitFailureTotal(@),
                                        !.err = "commit"]
       ELSE /\ nameservers' = Committed(nameservers, ingest.rows)
            /\ ingest' = [ingest EXCEPT !.pc = "returned", !.tx = "committed"]
  /\ UNCHANGED <<feed, dbOpen, call, ret, loader, reader>>

\* A query of another connection runs; what it ran against is kept.
ReaderQuery ==
  /\ reader' = reader \cup {[phase |-> Phase(ingest.pc),
                             view |-> Visible(nameservers, ingest.rows, ingest.tx)]}
  /\ UNCHANGED <<database, loader, ingest>>

IngestNext ==
  \/ \E ips \in SeqsUpTo(IPs, MaxLen), fault \in Faults : CallDumpToDatabase(ips, fault)
  \/ ExecDropTable
  \/ ExecCreateTable
  \/ ExecCreateIndex
  \/ Begin
  \/ Prepare
  \/ ExecInsert
  \/ Commit
  \/ ReaderQuery

IngestSpec == IngestSpecInit /\ [][IngestNext]_vars

(***************************************************************************)
(* Properties of the ingest.                                               *)
(***************************************************************************)

Dumped == call.op = "DumpToDatabase"

\* The call returned a count and a nil error.
Succeeded == ret.err = "" /\ ~ret.panic

DistinctAddresses(servers) ==
  \A i, j \in 1..Len(servers) :
    i # j => servers[i].IPAddress # servers[j].IPAddress

\* The table holds one row for each record of servers, with the record's
\* fields, and no other row.
HoldsExactly(t, servers) ==
  /\ t.exists
  /\ Len(t.rows) = Len(servers)
  /\ \A i \in 1..Len(servers) :
       \E k \in 1..Len(t.rows) :
         /\ t.rows[k].ip = servers[i].IPAddress
         /\ t.rows[k].name = servers[i].Name
         /\ t.rows[k].country = servers[i].Country
         /\ t.rows[k].city = servers[i].City
         /\ t.rows[k].checked_at = servers[i].CheckedAt

\* C1: a DumpToDatabase of N records with pairwise distinct addresses on a
\* live connection returns (N, nil), and the table then holds exactly those
\* N records: the count is the number of records and the number of rows.
C1_DumpPersistsEveryRecord ==
  (Dumped /\ dbOpen /\ call.fault = "none" /\ DistinctAddresses(call.servers))
    => /\ Succeeded
       /\ ret.total = Len(call.servers)
       /\ ret.total = Len(nameservers.rows)
       /\ HoldsExactly(nameservers, call.servers)

\* A dump of two records into a table that already held rows.
C1_Witness ==
  /\ Dumped /\ dbOpen /\ call.fault = "none"
  /\ DistinctAddresses(call.servers)
  /\ Len(call.servers) = 2
  /\ call.found # {}

\* C2: every successful DumpToDatabase is a full replace: it returns the
\* number M of its records, the table then holds exactly those M records,
\* and no row that only the table it found held is left.
C2_FullReplace ==
  [][(call'.op = "DumpToDatabase" /\ ret'.err = "" /\ ~ret'.panic)
       => /\ ret'.total = Len(call'.servers)
          /\ HoldsExactly(nameservers', call'.servers)
          /\ \A k \in 1..Len(nameservers.rows) :
               (\A i \in 1..Len(call'.servers) :
                  call'.servers[i].IPAddress # nameservers.rows[k].ip)
                 => \A m \in 1..Len(nameservers'.rows) :
                      nameservers'.rows[m].ip # nameservers.rows[k].ip]_vars

\* A successful dump of at least one record into a table that held a row of
\* an address the dump does not bring.
C2_Witness ==
  /\ Dumped /\ Succeeded
  /\ Len(call.servers) >= 1
  /\ \E ip \in call.found :
       \A i \in 1..Len(call.servers) : call.servers[i].IPAddress # ip

\* C3: a DumpToDatabase that reports an error returns the count 0, whatever
\* statement failed, and on a closed connection it reports an error.
C3_ErrorMeansZeroRows ==
  Dumped => /\ ret.err # "" => ret.total = 0
            /\ ~dbOpen => (ret.err # "" /\ ~ret.panic)

\* A dump whose commit failed after its records were inserted.
C3_Witness ==
  /\ Dumped
  /\ ret.err = "commit"
  /\ Len(call.servers) >= 1
  /\ DistinctAddresses(call.servers)

(***************************************************************************)
(* Properties of the queries.  They are stated on the rows of the table,   *)
(* for a query that the store can run: an open handle and a table that a   *)
(* dump has created.                                                       *)
(***************************************************************************)

Asked(op) == call.op = op /\ dbOpen /\ nameservers.exists

StoredRows == {nameservers.rows[k] : k \in 1..Len(nameservers.rows)}

StoredRowsOf(country) == {row \in StoredRows : row.country = country}

\* The reliability of a row as a score: the number of the dataset, in
\* hundredths, and the minimum 0 for a reliability that is absent or no
\* number.
Score(row) == IF row.reliability.type = "real" THEN row.reliability.num ELSE 0

\* Named, located and fully reliable.
Qualifies(row) ==
  /\ row.name # ""
  /\ row.city # ""
  /\ row.reliability.type = "real"
  /\ row.reliability.num = 100

\* The stored row a returned record was scanned from.
RowOf(rec) == CHOOSE row \in StoredRows : row.ip = rec.IPAddress

Returned == {ret.recs[i] : i \in 1..Len(ret.recs)}

\* C4: GetBestFromCountry(code) returns a row of the country code whose
\* reliability is at least that of every other row of the country, and no
\* record with a not-found error when the country has no row.
C4_BestFromCountryIsMostReliable ==
  Asked("GetBestFromCountry") =>
    IF StoredRowsOf(call.country) = {}
      THEN ret.recs = <<>> /\ ret.err = "sql: no rows in result set"
      ELSE /\ ret.err = ""
           /\ Len(ret.recs) = 1
           /\ ret.recs[1].Country = call.country
           /\ \E row \in StoredRowsOf(call.country) :
                /\ row.ip = ret.recs[1].IPAddress
                /\ \A other \in StoredRowsOf(call.country) : Score(row) >= Score(other)

\* C5: GetBestFromCountries(codes) returns at most one row per country: the
\* countries of the rows are pairwise distinct and among the codes, there
\* are no more rows than distinct codes, and exactly one row for each code
\* when every requested country has a qualifying row.
C5_OneRowPerCountry ==
  (Asked("GetBestFromCountries") /\ Succeeded) =>
    LET codes == Range(call.countries)
    IN /\ \A i, j \in 1..Len(ret.recs) :
            i # j => ret.recs[i].Country # ret.recs[j].Country
       /\ \A i \in 1..Len(ret.recs) : ret.recs[i].Country \in codes
       /\ Len(ret.recs) <= Cardinality(codes)
       /\ (\A c \in codes : \E row \in StoredRowsOf(c) : Qualifies(row))
            => /\ Len(ret.recs) = Cardinality(codes)
               /\ \A c \in codes : \E rec \in Returned : rec.Country = c

\* Two countries asked for, one row returned for each.
C5_Witness ==
  /\ Asked("GetBestFromCountries") /\ Succeeded
  /\ Cardinality(Range(call.countries)) = 2
  /\ Len(ret.recs) = 2

\* C6: GetBestFromCountries(codes) returns a row for a requested country
\* exactly when the table holds a row of that country with a name, a city
\* and reliability 1, and every returned row is such a row; a country whose
\* rows all fail the filter gets no row, though GetBestFromCountry returns
\* one for it.
C6_OnlyQualifyingRows ==
  (Asked("GetBestFromCountries") /\ Succeeded) =>
    /\ \A c \in Range(call.countries) :
         (\E rec \in Returned : rec.Country = c)
           <=> (\E row \in StoredRowsOf(c) : Qualifies(row))
    /\ \A rec \in Returned :
         /\ \E row \in StoredRows : row.ip = rec.IPAddress
         /\ Qualifies(RowOf(rec))
         /\ RowOf(rec).country = rec.Country
    /\ \A c \in Range(call.countries) :
         (StoredRowsOf(c) # {} /\ ~\E row \in StoredRowsOf(c) : Qualifies(row))
           => /\ ~\E rec \in Returned : rec.Country = c
              /\ \A best \in BestFromCountry(dbOpen, nameservers, c) :
                   best.err = "" /\ Len(best.recs) = 1

\* Two countries asked for, one with a qualifying row and one whose only
\* row fails the filter.
C6_Witness ==
  /\ Asked("GetBestFromCountries") /\ Succeeded
  /\ Len(ret.recs) = 1
  /\ \E c \in Range(call.countries) :
       /\ StoredRowsOf(c) # {}
       /\ ~\E row \in StoredRowsOf(c) : Qualifies(row)

\* C7: for a requested country with several qualifying rows, the row
\* GetBestFromCountries returns for it is the one with the earliest
\* checked_at among them.
C7_EarliestCheckedAt ==
  (Asked("GetBestFromCountries") /\ Succeeded) =>
    \A rec \in Returned :
      \A row \in StoredRowsOf(rec.Country) :
        Qualifies(row) => RowOf(rec).checked_at <= row.checked_at

\* C8: GetBestFromCountries with no country code returns an error to the
\* caller.
C8_EmptyCodesIsAnError ==
  (call.op = "GetBestFromCountries" /\ call.countries = <<>>)
    => ~ret.panic /\ ret.err # ""

\* C9: GetNameserverPerCountryTally returns exactly one entry for each
\* country with a row that has a name, a city and reliability 1, its total
\* the number of such rows; no country twice, no total 0.
C9_TallyCountsQualifyingRows ==
  Asked("GetNameserverPerCountryTally") =>
    /\ Succeeded
    /\ \A i, j \in 1..Len(ret.tally) :
         i # j => ret.tally[i].Country # ret.tally[j].Country
    /\ \A i \in 1..Len(ret.tally) :
         /\ ret.tally[i].Total > 0
         /\ ret.tally[i].Total
              = Cardinality({row \in StoredRowsOf(ret.tally[i].Country) : Qualifies(row)})
    /\ \A row \in StoredRows :
         Qualifies(row) => \E i \in 1..Len(ret.tally) : ret.tally[i].Country = row.country

\* A country with one qualifying row and one row that fails the filter.
C9_Witness ==
  /\ Asked("GetNameserverPerCountryTally")
  /\ \E i \in 1..Len(ret.tally) :
       /\ ret.tally[i].Total = 1
       /\ Cardinality(StoredRowsOf(ret.tally[i].Country)) = 2

\* C10: GetAllFromCountry(code) returns one record for every row of the
\* country code and none of another country, so as many records as the
\* country has rows, and no record and a nil error when it has none.
C10_AllRowsOfCountry ==
  Asked("GetAllFromCountry") =>
    /\ Succeeded
    /\ Len(ret.recs) = Cardinality(StoredRowsOf(call.country))
    /\ \A rec \in Returned : rec.Country = call.country
    /\ \A row \in StoredRowsOf(call.country) :
         \E rec \in Returned : rec.IPAddress = row.ip /\ rec.City = row.city
    /\ StoredRowsOf(call.country) = {} => ret.recs = <<>>

\* One row of the country asked for and one of another country.
C10_Witness ==
  /\ Asked("GetAllFromCountry")
  /\ Len(ret.recs) = 1
  /\ Len(nameservers.rows) = 2

(***************************************************************************)
(* Properties of the ingest as an operation that can be repeated and that  *)
(* can fail.                                                               *)
(***************************************************************************)

\* What the four queries answer on the table t: for each argument, the
\* answers the store can give.
QueryResults(open, t) ==
  [all |-> [c \in Countries |-> AllFromCountry(open, t, c)],
   best |-> [c \in Countries |-> BestFromCountry(open, t, c)],
   bests |-> [cs \in SeqsUpTo(Countries, MaxCodes) |-> BestFromCountries(open, t, cs)],
   tally |-> NameserverPerCountryTally(open, t)]

\* C11: a DumpToDatabase that has returned, run again with the same records
\* on the table it left, returns the same count and error, and the four
\* queries then answer as they did after the first run.
C11_SecondRunChangesNothing ==
  (Dumped /\ call.fault = "none" /\ ~ret.panic) =>
    LET again == DumpResult(dbOpen, nameservers, call.servers, "none")
    IN /\ again.total = ret.total
       /\ again.err = ret.err
       /\ again.panic = ret.panic
       /\ QueryResults(dbOpen, again.table) = QueryResults(dbOpen, nameservers)

\* A successful dump of two records on the table that holds the rows of the
\* same two addresses: the second of two runs.
C11_Witness ==
  /\ Dumped /\ dbOpen /\ call.fault = "none" /\ Succeeded
  /\ Len(call.servers) = 2
  /\ call.found = {call.servers[i].IPAddress : i \in 1..Len(call.servers)}

(***************************************************************************)
(* Properties of the loaders.                                              *)
(***************************************************************************)

\* A data line with the fields of the header and a check time that is a
\* time.
WellFormed(line) == Len(line) = Len(Header) /\ line[2] = Stamp

Started(step) == \E i \in 1..Len(load.steps) : load.steps[i] = step

\* C12: LoadFromFile returns either a nil error and one record for each
\* data line of the file, in the order of the lines, or an error and no
\* record; a file that cannot be opened and a file with a line that does
\* not decode give the error and no record, a file of well-formed lines
\* gives its records.
C12_AllOrNothing ==
  load.op = "LoadFromFile" =>
    LET file == files[load.filename]
        opened == file.exists /\ load.fault = "none"
    IN /\ \/ /\ load.err = ""
             /\ opened
             /\ Len(load.recs) = Len(file.doc) - 1
             /\ \A i \in 1..Len(load.recs) :
                  load.recs[i].IPAddress = file.doc[i + 1][1]
          \/ /\ load.err # ""
             /\ load.recs = <<>>
       /\ ~opened => load.err # ""
       /\ (opened /\ \E i \in 2..Len(file.doc) : ~WellFormed(file.doc[i]))
            => load.err # ""
       /\ (opened /\ file.doc # <<>> /\ \A i \in 2..Len(file.doc) : WellFormed(file.doc[i]))
            => load.err = ""

\* A file whose first data line decodes and whose second has a check time
\* that is no time.
C12_Witness ==
  /\ load.op = "LoadFromFile" /\ load.fault = "none"
  /\ files[load.filename].exists
  /\ Len(files[load.filename].doc) = 3
  /\ WellFormed(files[load.filename].doc[2])
  /\ files[load.filename].doc[3] = <<"8.8.8.8", NoStamp>>
  /\ load.err # ""

\* C13: LoadFromURL makes each of its calls once, and starts LoadFromFile
\* only after a copy that wrote at least one byte and a Sync that
\* succeeded: when os.Create, http.Get or io.Copy fails, or no byte is
\* written, it returns no record and an error and LoadFromFile is not
\* started.
C13_FetchThenDecode ==
  load.op = "LoadFromURL" =>
    /\ (load.fault \in {"create", "get", "copy"} \/ load.url = BadURL \/ load.written = 0)
         => /\ load.recs = <<>>
            /\ load.err # ""
            /\ ~Started("LoadFromFile")
    /\ Started("LoadFromFile")
         => /\ load.written >= 1
            /\ load.fault # "sync"
            /\ Size(files[load.filename].doc) = load.written
            /\ \E i, j \in 1..Len(load.steps) :
                 i < j /\ load.steps[i] = "Sync" /\ load.steps[j] = "LoadFromFile"
    /\ \A i, j \in 1..Len(load.steps) : i # j => load.steps[i] # load.steps[j]

\* A URL that answers with a body of no byte.
C13_Witness ==
  /\ load.op = "LoadFromURL" /\ load.fault = "none" /\ load.url = GoodURL
  /\ load.written = 0
  /\ load.err = "No bytes written"

(***************************************************************************)
(* Properties of the failures.                                             *)
(***************************************************************************)

\* C14: no operation panics: every call of DumpToDatabase and of the four
\* queries returns a result or an error, whatever its input.
C14_NoOperationPanics == ~ret.panic

\* C15: a DumpToDatabase whose records repeat an address returns an error
\* and the count 0, and leaves no row of the batch in the table.
C15_DuplicateAddressIsAnError ==
  (Dumped /\ dbOpen /\ call.fault = "none" /\ ~DistinctAddresses(call.servers))
    => /\ ~ret.panic
       /\ ret.err # ""
       /\ ret.total = 0
       /\ nameservers.rows = <<>>

\* C16: a DumpToDatabase that reports an error returns the count 0 and has
\* added no row: the table holds the rows it held before, or none.  When
\* the commit fails the call reports the error, and the rows the loop
\* inserted are not in the table.
C16_FailureLeavesNoRowOfTheBatch ==
  [][(call'.op = "DumpToDatabase" /\ ret'.err # "")
       => /\ ret'.total = 0
          /\ nameservers'.rows \in {<<>>, nameservers.rows}
          /\ ret'.err = "commit" => nameservers'.rows = <<>>]_vars

\* A commit that failed after the loop inserted two records, on a table
\* that held rows before the call.
C16_Witness ==
  /\ Dumped /\ dbOpen
  /\ call.fault = "commit"
  /\ ret.err = "commit"
  /\ Len(call.servers) = 2
  /\ call.found # {}
  /\ nameservers.rows = <<>>

\* C17: when DROP TABLE fails on a table that holds rows, DumpToDatabase
\* returns the error of the DROP with the count 0, and leaves the rows as
\* they were.
C17_DropFailureIsReturned ==
  (Dumped /\ dbOpen /\ call.fault = "drop" /\ call.found # {})
    => /\ ret.err = DropError(nameservers, TRUE)
       /\ ret.total = 0
       /\ {nameservers.rows[k].ip : k \in 1..Len(nameservers.rows)} = call.found

\* C18: GetBestFromCountry returns no row whose reliability is absent or no
\* number for a country that has a row with a numeric reliability, and
\* does not panic.
C18_NoNumberRanksLowest ==
  (Asked("GetBestFromCountry")
     /\ \E row \in StoredRowsOf(call.country) : row.reliability.type = "real")
    => /\ ~ret.panic
       /\ \A rec \in Returned : RowOf(rec).reliability.type = "real"

(***************************************************************************)
(* Properties of DumpToDatabase statement by statement.                    *)
(***************************************************************************)

\* The call that has run statement by statement ends as DumpResult says.
StepwiseAgrees ==
  ingest.pc \in {"returned", "panicked"} =>
    LET out == DumpResult(dbOpen, ingest.before, ingest.servers, ingest.fault)
    IN /\ out.table = nameservers
       /\ out.panic <=> ingest.pc = "panicked"
       /\ ~out.panic => (out.total = ingest.total /\ out.err = ingest.err)

\* C19: when DumpToDatabase returns after a Begin that succeeded, it has
\* committed the transaction or rolled it back.
C19_TransactionClosedOnReturn ==
  (ingest.pc = "returned" /\ ingest.tx # "none")
    => ingest.tx \in {"committed", "rolled back"}

\* C20: a query that runs after DumpToDatabase has returned without error
\* runs against the indexed table of exactly the records of the call; a
\* query that runs during the call runs against the table the call found,
\* or against no row (no table, a table without indexes, an empty table),
\* or against the table of the records of the call.
C20_CompleteOnlyAfterReturn ==
  \A o \in reader :
    /\ (o.phase = "after" /\ ingest.err = "")
         => /\ HoldsExactly(o.view, ingest.servers)
            /\ o.view.indexes = Range(IndexNames)
    /\ o.phase = "during"
         => \/ o.view = ingest.before
            \/ o.view.rows = <<>>
            \/ HoldsExactly(o.view, ingest.servers)

\* A call on a table that held rows, at its insert loop; the queries that
\* ran next to it found no table, then a table without indexes, then a
\* table with two of its three indexes, then an indexed table without rows.
C20_Witness ==
  /\ ingest.pc = "insert"
  /\ ingest.before.rows # <<>>
  /\ Len(ingest.servers) >= 1
  /\ \E o \in reader : o.phase = "during" /\ ~o.view.exists
  /\ \E o \in reader : o.phase = "during" /\ o.view.exists /\ o.view.indexes = {}
  /\ \E o \in reader : o.phase = "during" /\ Cardinality(o.view.indexes) = 2
  /\ \E o \in reader :
       /\ o.phase = "during"
       /\ o.view.indexes = Range(IndexNames)
       /\ o.view.rows = <<>>

====
